---- MODULE Spec2Model ----
(***************************************************************************)
(* Model of the LED matrix driver (src/src/lib.rs): the bit-plane encoder  *)
(* prepare_row, the layer writer write_layer (with write_row) and the scan *)
(* scheduler scan, run against peripherals that behave like the mock pins, *)
(* timer and transport of src/src/tests/mock.rs but whose operations may   *)
(* also fail (pins, transport) or answer WouldBlock (transport, timer).    *)
(*                                                                         *)
(* One step of the model is one peripheral operation (or one loop-control  *)
(* step of scan), so the order of the operations is observable.            *)
(* A pin operation that returns Err is taken to have had no effect on the  *)
(* pin's level.                                                            *)
(***************************************************************************)
EXTENDS Integers, Sequences, FiniteSets, TLC

\* ---------------------------------------------------------------- constants
ROW_BITS == 3
COL_BITS == 4
LAYER_BITS == 4

NUM_ROWS == 2 ^ ROW_BITS
NUM_COLS == 2 ^ COL_BITS
SPI_BYTES == NUM_COLS \div 8

U8Max == 255
U16Mod == 65536

\* ------------------------------------------------------------------- bounds
MaxScans == 2       \* scan calls per behaviour
MaxBase == 2        \* base_freq values 1..MaxBase
MaxBusy == 1        \* WouldBlock answers per send
MaxTries == 1       \* polls left on a timer the application has set
MaxCalls == 2       \* direct write_layer calls per behaviour
MaxEncodes == 2     \* direct prepare_row calls per behaviour
MaxLen == 2         \* length of a layer passed directly to write_layer
MaxBg == 1          \* background patterns of the grids given to prepare_row

Rows == 0 .. (NUM_ROWS - 1)
Cols == 0 .. (NUM_COLS - 1)
Layers == 0 .. (LAYER_BITS - 1)
None == 0 - 1

\* ------------------------------------------------------------ pure functions
\* bit k of n
Bit(n, k) == (n \div (2 ^ k)) % 2

\* !data on a u8
\* the negation of a byte in two's complement, in place of its complement
NotU8Negated(b) == (U8Max + 1 - b) % (U8Max + 1)

NotU8(b) == U8Max - b

\* PackLoop without the modulus: the bits above bit l leak into the plane
RECURSIVE PackLoopNoMod(_, _, _, _)
PackLoopNoMod(rowv, l, c, output) ==
    IF c < 0 THEN output
    ELSE PackLoopNoMod(rowv, l, c - 1, ((output * 2) % U16Mod) + (rowv[c] \div (2 ^ l)))

\* the inner loop of prepare_row (row.iter().rev()): columns c, c-1, ..., 0 are
\* still to be shifted into output
RECURSIVE PackLoop(_, _, _, _)
PackLoop(rowv, l, c, output) ==
    IF c < 0 THEN output
    ELSE LET tmp == rowv[c] % ((2 * (2 ^ l)) % (U8Max + 1))
         IN  PackLoop(rowv, l, c - 1, ((output * 2) % U16Mod) + (tmp \div (2 ^ l)))

\* ToBeBytes with the bytes swapped (to_le_bytes)
ToLeBytes(w) == << w % 256, w \div 256 >>

ToBeBytes(w) == << w \div 256, w % 256 >>

\* one iteration of the outer loop of prepare_row: the bytes of plane l
PlaneOf(rowv, l) == ToBeBytes(PackLoop(rowv, l, NUM_COLS - 1, 0))

\* prepare_row(r, buf) for r < NUM_ROWS: the new contents of buf
prepare_row(grid, r) == [l \in Layers |-> PlaneOf(grid[r], l)]

\* base_freq << s
Shl(b, s) == b * (2 ^ s)

\* ---------------------------------------------------------------- the state
VARIABLES
    array,           \* LEDArray.array: the pixel grid
    row_pins,        \* levels of row_pins.0, .1, .2
    reg_pin,         \* level of the latch pin
    output_disable,  \* level of the output-disable pin
    timer,           \* MockTimer.tries: polls left until wait answers Ok
    pc,              \* position of the running call ("idle": none)
    result,          \* what the last call returned
    detail,          \* the error value inside the LEDError it returned
    caller,          \* who called write_layer: "scan" or "api"
    base_freq,       \* scan's argument
    row, layer,      \* scan's loop variables
    layers,          \* scan's local buffer
    wl_layer,        \* write_layer's argument layer
    wl_row,          \* write_layer's argument row (None or a row index)
    bi,              \* index of the next byte of wl_layer to send
    busy,            \* WouldBlock answers to the pending send
    ncalls,          \* calls made from outside so far
    \* what the hardware behind the pins holds, and the history the claims read
    shiftReg,        \* the last SPI_BYTES bytes accepted, each with its origin
    latched,         \* shiftReg as of the last rising edge of the latch
    enc_row,         \* the r of the last prepare_row(r, ..)
    snap,            \* array[r] as prepare_row read it
    log,             \* operations of the current write_layer call, in order, each
                     \* << device, index, value, answered Ok, the answer >>
    calls,           \* (row, plane) of the write_layer calls of the current scan
    arms,            \* values passed to timer.start in the current scan
    nsent,           \* bytes accepted by the transport in the current scan
    switched,        \* a row switch has completed
    ticks,           \* WouldBlock answers of timer.wait since the last latch edge
    armed,           \* the last timer.start since the last latch edge
    dwell            \* how long the plane replaced at the last latch edge was held

prog == << pc, result, detail, caller, base_freq, row, layer, layers, wl_layer, wl_row, bi, busy, ncalls >>
pins == << row_pins, reg_pin, output_disable >>
hist == << shiftReg, latched, enc_row, snap, log, calls, arms, nsent, switched, ticks, armed, dwell >>
vars == << array, pins, timer, prog, hist >>

NoArm == [value |-> None, base |-> None, plane |-> None]
NoDwell == [row |-> None, plane |-> None, ticks |-> 0, armed |-> NoArm]
NoOrigin == << None, None >>
NoSnap == [c \in Cols |-> 0]

\* the error values a pin or the transport can answer with
ErrorValues == { "E1", "E2" }

\* the grids the application writes: row 0 of GridA is the row of test_prepare_row
GridA == [r \in Rows |-> [c \in Cols |-> (17 * r + 15 - c) % (U8Max + 1)]]
GridB == [r \in Rows |-> [c \in Cols |-> (r * c + 200) % (U8Max + 1)]]
Grids == { GridA, GridB }

ZeroLayers == [l \in Layers |-> << 0, 0 >>]

\* the row index encoded on the row-select pins
RowOnPins ==
    (IF row_pins[0] THEN 1 ELSE 0) + (IF row_pins[1] THEN 2 ELSE 0) + (IF row_pins[2] THEN 4 ELSE 0)

\* the driver is built from pins and a timer in any state (the struct has no
\* constructor); the application has called nothing yet
Constructed ==
    /\ row_pins \in { [k \in 0 .. (ROW_BITS - 1) |-> FALSE], [k \in 0 .. (ROW_BITS - 1) |-> TRUE] }
    /\ reg_pin \in BOOLEAN
    /\ output_disable \in BOOLEAN
    /\ timer \in 0 .. MaxTries
    /\ pc = "idle"
    /\ result = "none"
    /\ detail = "none"
    /\ caller = "none"
    /\ base_freq = 0
    /\ row = 0
    /\ layer = 0
    /\ wl_layer = << >>
    /\ wl_row = None
    /\ bi = 0
    /\ busy = 0
    /\ ncalls = 0
    /\ shiftReg = << >>
    /\ latched = << >>
    /\ enc_row = None
    /\ snap = NoSnap
    /\ log = << >>
    /\ calls = << >>
    /\ arms = << >>
    /\ nsent = 0
    /\ switched = FALSE
    /\ ticks = 0
    /\ armed = NoArm
    /\ dwell = NoDwell

Init ==
    /\ array \in Grids
    /\ layers = ZeroLayers
    /\ Constructed

\* ------------------------------------------------------------- write_layer
\* WLSteps with the outputs blanked only after the row pins are written
WLStepsBlankLate(r) ==
    IF r = None
    THEN << "reg_low", "send", "wait", "latch_only" >>
    ELSE << "reg_low", "send", "wait", "row0", "row1", "row2", "od_high", "latch", "od_low" >>

\* WLSteps with the outputs enabled again before the latch
WLStepsUnblankEarly(r) ==
    IF r = None
    THEN << "reg_low", "send", "wait", "latch_only" >>
    ELSE << "reg_low", "send", "wait", "od_high", "row0", "row1", "row2", "od_low", "latch" >>

\* WLSteps with the latch driven before the timer is waited for
WLStepsLatchBeforeWait(r) ==
    IF r = None
    THEN << "reg_low", "send", "latch_only", "wait" >>
    ELSE << "reg_low", "send", "od_high", "row0", "row1", "row2", "latch", "od_low", "wait" >>

\* WLSteps with the latch dropped only after the bytes are shifted out
WLStepsSendFirst(r) ==
    IF r = None
    THEN << "send", "reg_low", "wait", "latch_only" >>
    ELSE << "send", "reg_low", "wait", "od_high", "row0", "row1", "row2", "latch", "od_low" >>

\* The peripheral operations of write_layer, in program order, for a call
\* without (row = None) and with (row = Some(r)) a row switch.
WLSteps(r) ==
    IF r = None
    THEN << "reg_low", "send", "wait", "latch_only" >>
    ELSE << "reg_low", "send", "wait", "od_high", "row0", "row1", "row2", "latch", "od_low" >>

\* the step after step s in seq; "ret" after the last one
Succ(seq, s) ==
    LET i == CHOOSE k \in 1 .. Len(seq) : seq[k] = s
    IN  IF i = Len(seq) THEN "ret" ELSE seq[i + 1]

\* where write_layer is after step s has succeeded, nbi bytes of n being sent:
\* the for loop over the bytes is left once all are sent
StepAfter(r, s, nbi, n) ==
    LET nx == Succ(WLSteps(r), s)
    IN  IF s = "send" /\ nbi < n THEN "send"
        ELSE IF nx = "send" /\ nbi >= n THEN Succ(WLSteps(r), "send") ELSE nx

\* the first operation of a call
FirstStep(r, n) ==
    LET f == WLSteps(r)[1]
    IN  IF f = "send" /\ n = 0 THEN Succ(WLSteps(r), "send") ELSE f

\* Finish with scan dropping the error of write_layer and going on to arm the
\* timer
FinishScanGoesOn(s, nbi, entry, ok, err) ==
    LET nx == StepAfter(wl_row, s, nbi, Len(wl_layer))
    IN  IF ok
        THEN /\ log' = Append(log, Append(entry, "Ok"))
             /\ pc' = IF nx = "ret" THEN (IF caller = "scan" THEN "arm" ELSE "idle") ELSE nx
             /\ result' = IF nx = "ret" THEN "Ok" ELSE result
             /\ detail' = detail
             /\ switched' = (switched \/ (nx = "ret" /\ wl_row # None))
        ELSE \E e \in ErrorValues :
                /\ log' = Append(log, Append(entry, e))
                /\ pc' = IF caller = "scan" THEN "arm" ELSE "idle"
                /\ result' = err
                /\ detail' = e
                /\ switched' = switched

\* the rest of step s of write_layer: the operation is logged; on Ok the call
\* moves on, or returns Ok to its caller after the last step; on Err the call
\* returns the error, which scan propagates (the ? operators): err is the
\* LEDError variant map_err wraps the peripheral's error value in.
Finish(s, nbi, entry, ok, err) ==
    LET nx == StepAfter(wl_row, s, nbi, Len(wl_layer))
    IN  IF ok
        THEN /\ log' = Append(log, Append(entry, "Ok"))
             /\ pc' = IF nx = "ret" THEN (IF caller = "scan" THEN "arm" ELSE "idle") ELSE nx
             /\ result' = IF nx = "ret" THEN "Ok" ELSE result
             /\ detail' = detail
             /\ switched' = (switched \/ (nx = "ret" /\ wl_row # None))
        ELSE \E e \in ErrorValues :
                /\ log' = Append(log, Append(entry, e))
                /\ pc' = "idle"
                /\ result' = err
                /\ detail' = e
                /\ switched' = switched

\* the origin of the bytes being sent: (row encoded, plane) inside scan
Origin == IF caller = "scan" THEN << enc_row, layer >> ELSE NoOrigin

\* the shift register after one more byte
Shifted(reg, e) ==
    IF Len(reg) < SPI_BYTES THEN Append(reg, e) ELSE Append(Tail(reg), e)

\* reg_pin.set_high(): a rising edge copies the shift register to the outputs
LatchHigh ==
    /\ reg_pin' = TRUE
    /\ IF reg_pin
       THEN UNCHANGED << latched, dwell, ticks, armed >>
       ELSE /\ latched' = shiftReg
            /\ dwell' = [row |-> IF latched = << >> THEN None ELSE latched[1][2],
                         plane |-> IF latched = << >> THEN None ELSE latched[1][3],
                         ticks |-> ticks, armed |-> armed]
            /\ ticks' = 0
            /\ armed' = NoArm

\* self.reg_pin.set_low()
RegLow ==
    /\ pc = "reg_low"
    /\ \E ok \in BOOLEAN :
          /\ reg_pin' = IF ok THEN FALSE ELSE reg_pin
          /\ Finish("reg_low", bi, << "reg_pin", 0, 0, ok >>, ok, "PinError")
    /\ UNCHANGED << array, row_pins, output_disable, timer, caller, base_freq, row, layer,
                    layers, wl_layer, wl_row, bi, busy, ncalls, shiftReg, latched, enc_row, snap,
                    calls, arms, nsent, ticks, armed, dwell >>

\* spi.send(!data) answers Ok
SendAccepted ==
    /\ pc = "send"
    /\ bi < Len(wl_layer)
    /\ shiftReg' = Shifted(shiftReg, << NotU8(wl_layer[bi + 1]), Origin[1], Origin[2] >>)
    /\ bi' = bi + 1
    /\ busy' = 0
    /\ nsent' = nsent + 1
    /\ Finish("send", bi + 1, << "spi", bi, NotU8(wl_layer[bi + 1]), TRUE >>, TRUE, "SPIError")
    /\ UNCHANGED << array, pins, timer, caller, base_freq, row, layer, layers, wl_layer,
                    wl_row, ncalls, latched, enc_row, snap, calls, arms, ticks, armed, dwell >>

\* spi.send(!data) answers WouldBlock: block! asks again
SendWouldBlock ==
    /\ pc = "send"
    /\ bi < Len(wl_layer)
    /\ busy < MaxBusy
    /\ busy' = busy + 1
    /\ UNCHANGED << array, pins, timer, pc, result, detail, caller, base_freq, row, layer, layers,
                    wl_layer, wl_row, bi, ncalls, hist >>

\* SendError with the error dropped: the loop goes on to the next byte
SendErrorIgnored ==
    /\ pc = "send"
    /\ bi < Len(wl_layer)
    /\ busy' = 0
    /\ bi' = bi + 1
    /\ Finish("send", bi + 1, << "spi", bi, NotU8(wl_layer[bi + 1]), FALSE >>, TRUE, "SPIError")
    /\ UNCHANGED << array, pins, timer, caller, base_freq, row, layer, layers, wl_layer,
                    wl_row, ncalls, shiftReg, latched, enc_row, snap, calls, arms, nsent,
                    ticks, armed, dwell >>

\* spi.send(!data) answers Err
SendError ==
    /\ pc = "send"
    /\ bi < Len(wl_layer)
    /\ busy' = 0
    /\ Finish("send", bi, << "spi", bi, NotU8(wl_layer[bi + 1]), FALSE >>, FALSE, "SPIError")
    /\ UNCHANGED << array, pins, timer, caller, base_freq, row, layer, layers, wl_layer,
                    wl_row, bi, ncalls, shiftReg, latched, enc_row, snap, calls, arms, nsent,
                    ticks, armed, dwell >>

\* WaitWouldBlock of a timer that does not count down
WaitWouldBlockStuck ==
    /\ pc = "wait"
    /\ timer > 0
    /\ UNCHANGED << timer, ticks >>
    /\ UNCHANGED << array, pins, prog, shiftReg, latched, enc_row, snap, log, calls, arms,
                    nsent, switched, armed, dwell >>

\* timer.wait() answers WouldBlock: block! asks again
WaitWouldBlock ==
    /\ pc = "wait"
    /\ timer > 0
    /\ timer' = timer - 1
    /\ ticks' = ticks + 1
    /\ UNCHANGED << array, pins, prog, shiftReg, latched, enc_row, snap, log, calls, arms, nsent,
                    switched, armed, dwell >>

\* timer.wait() answers Ok
WaitDone ==
    /\ pc = "wait"
    /\ timer = 0
    /\ Finish("wait", bi, << "timer", 0, 0, TRUE >>, TRUE, "none")
    /\ UNCHANGED << array, pins, timer, caller, base_freq, row, layer, layers, wl_layer,
                    wl_row, bi, busy, ncalls, shiftReg, latched, enc_row, snap, calls, arms,
                    nsent, ticks, armed, dwell >>

\* None => self.reg_pin.set_high()
LatchOnly ==
    /\ pc = "latch_only"
    /\ \E ok \in BOOLEAN :
          /\ IF ok THEN LatchHigh ELSE UNCHANGED << reg_pin, latched, dwell, ticks, armed >>
          /\ Finish("latch_only", bi, << "reg_pin", 0, 1, ok >>, ok, "PinError")
    /\ UNCHANGED << array, row_pins, output_disable, timer, caller, base_freq, row, layer,
                    layers, wl_layer, wl_row, bi, busy, ncalls, shiftReg, enc_row, snap, calls,
                    arms, nsent >>

\* Some(row) => self.output_disable.set_high()
OdHigh ==
    /\ pc = "od_high"
    /\ \E ok \in BOOLEAN :
          /\ output_disable' = IF ok THEN TRUE ELSE output_disable
          /\ Finish("od_high", bi, << "output_disable", 0, 1, ok >>, ok, "PinError")
    /\ UNCHANGED << array, row_pins, reg_pin, timer, caller, base_freq, row, layer, layers,
                    wl_layer, wl_row, bi, busy, ncalls, shiftReg, latched, enc_row, snap, calls,
                    arms, nsent, ticks, armed, dwell >>

\* SetRowPin that drives a pin high for a 1 bit and leaves it alone for a 0 bit
SetRowPinHighOnly(k, s) ==
    /\ pc = s
    /\ \E ok \in BOOLEAN :
          /\ row_pins' = IF ok /\ Bit(wl_row, k) = 1 THEN [row_pins EXCEPT ![k] = TRUE] ELSE row_pins
          /\ Finish(s, bi, << "row_pin", k, Bit(wl_row, k), ok >>, ok, "PinError")
    /\ UNCHANGED << array, reg_pin, output_disable, timer, caller, base_freq, row, layer,
                    layers, wl_layer, wl_row, bi, busy, ncalls, shiftReg, latched, enc_row, snap,
                    calls, arms, nsent, ticks, armed, dwell >>

\* write_row: set_pin(&mut self.row_pins.k, ((row >> k) & 1) == 1)
SetRowPin(k, s) ==
    /\ pc = s
    /\ \E ok \in BOOLEAN :
          /\ row_pins' = IF ok THEN [row_pins EXCEPT ![k] = (Bit(wl_row, k) = 1)] ELSE row_pins
          /\ Finish(s, bi, << "row_pin", k, Bit(wl_row, k), ok >>, ok, "PinError")
    /\ UNCHANGED << array, reg_pin, output_disable, timer, caller, base_freq, row, layer,
                    layers, wl_layer, wl_row, bi, busy, ncalls, shiftReg, latched, enc_row, snap,
                    calls, arms, nsent, ticks, armed, dwell >>

RowPin0 == SetRowPin(0, "row0")
RowPin1 == SetRowPin(1, "row1")
RowPin2 == SetRowPin(2, "row2")

\* SwitchLatch with the outputs enabled again when the latch fails
SwitchLatchReenables ==
    /\ pc = "latch"
    /\ \E ok \in BOOLEAN :
          /\ IF ok THEN LatchHigh ELSE UNCHANGED << reg_pin, latched, dwell, ticks, armed >>
          /\ output_disable' = IF ok THEN output_disable ELSE FALSE
          /\ Finish("latch", bi, << "reg_pin", 0, 1, ok >>, ok, "PinError")
    /\ UNCHANGED << array, row_pins, timer, caller, base_freq, row, layer, layers, wl_layer,
                    wl_row, bi, busy, ncalls, shiftReg, enc_row, snap, calls, arms, nsent >>

\* Some(row) => self.reg_pin.set_high()
SwitchLatch ==
    /\ pc = "latch"
    /\ \E ok \in BOOLEAN :
          /\ IF ok THEN LatchHigh ELSE UNCHANGED << reg_pin, latched, dwell, ticks, armed >>
          /\ Finish("latch", bi, << "reg_pin", 0, 1, ok >>, ok, "PinError")
    /\ UNCHANGED << array, row_pins, output_disable, timer, caller, base_freq, row, layer,
                    layers, wl_layer, wl_row, bi, busy, ncalls, shiftReg, enc_row, snap, calls,
                    arms, nsent >>

\* Some(row) => self.output_disable.set_low()
OdLow ==
    /\ pc = "od_low"
    /\ \E ok \in BOOLEAN :
          /\ output_disable' = IF ok THEN FALSE ELSE output_disable
          /\ Finish("od_low", bi, << "output_disable", 0, 0, ok >>, ok, "PinError")
    /\ UNCHANGED << array, row_pins, reg_pin, timer, caller, base_freq, row, layer, layers,
                    wl_layer, wl_row, bi, busy, ncalls, shiftReg, latched, enc_row, snap, calls,
                    arms, nsent, ticks, armed, dwell >>

WriteLayerStep ==
    \/ RegLow
    \/ SendAccepted
    \/ SendWouldBlock
    \/ SendError
    \/ WaitWouldBlock
    \/ WaitDone
    \/ LatchOnly
    \/ OdHigh
    \/ RowPin0
    \/ RowPin1
    \/ RowPin2
    \/ SwitchLatch
    \/ OdLow

\* -------------------------------------------------------------------- scan
\* RowArg with a row switch requested for every plane
RowArgAlways(l, r) == r

\* the row argument scan gives write_layer for plane l of row r
RowArg(l, r) == IF l = 0 THEN r ELSE None

\* ShiftOf off by one: LAYER_BITS - layer
ShiftOfByOne(l) == LAYER_BITS - l

\* ShiftOf with the plane's own index as the shift
ShiftOfPlane(l) == l

\* LAYER_BITS - layer - 1
ShiftOf(l) == LAYER_BITS - l - 1

\* a call of scan(base_freq)
ScanCall ==
    /\ pc = "idle"
    /\ ncalls < MaxScans
    /\ \E b \in 1 .. MaxBase : base_freq' = b
    /\ ncalls' = ncalls + 1
    /\ caller' = "scan"
    /\ result' = "none"
    /\ detail' = "none"
    /\ layers' = ZeroLayers
    /\ row' = 0
    /\ pc' = "for_row"
    /\ calls' = << >>
    /\ arms' = << >>
    /\ nsent' = 0
    /\ UNCHANGED << array, pins, timer, layer, wl_layer, wl_row, bi, busy, shiftReg, latched,
                    enc_row, snap, log, switched, ticks, armed, dwell >>

\* the row loop of scan running one row too far
RowLoopInclusive(r) == r <= NUM_ROWS

\* for row in 0..NUM_ROWS: the loop runs while this holds
RowLoop(r) == r < NUM_ROWS

\* ScanPrepare with the loop over the planes starting at plane 1
ScanPrepareFromOne ==
    /\ pc = "for_row"
    /\ row < NUM_ROWS
    /\ layers' = prepare_row(array, row)
    /\ enc_row' = row
    /\ snap' = array[row]
    /\ layer' = 1
    /\ pc' = "for_layer"
    /\ UNCHANGED << array, pins, timer, result, detail, caller, base_freq, row, wl_layer, wl_row, bi,
                    busy, ncalls, shiftReg, latched, log, calls, arms, nsent, switched, ticks,
                    armed, dwell >>

\* for row in 0..NUM_ROWS { self.prepare_row(row, &mut layers); ...
\* prepare_row asserts r < NUM_ROWS before it touches the buffer
ScanPrepare ==
    /\ pc = "for_row"
    /\ RowLoop(row)
    /\ enc_row' = row
    /\ IF row < NUM_ROWS
       THEN /\ layers' = prepare_row(array, row)
            /\ snap' = array[row]
            /\ layer' = 0
            /\ pc' = "for_layer"
            /\ UNCHANGED << result, detail >>
       ELSE /\ pc' = "panicked"
            /\ result' = "panic"
            /\ detail' = "none"
            /\ UNCHANGED << layers, snap, layer >>
    /\ UNCHANGED << array, pins, timer, caller, base_freq, row, wl_layer, wl_row, bi, busy,
                    ncalls, shiftReg, latched, log, calls, arms, nsent, switched, ticks,
                    armed, dwell >>

\* ScanReturn that waits for the timer armed last before it returns
ScanReturnWaited ==
    /\ pc = "for_row"
    /\ ~RowLoop(row)
    /\ pc' = "idle"
    /\ result' = "Ok"
    /\ timer' = 0
    /\ ticks' = ticks + timer
    /\ UNCHANGED << array, pins, detail, caller, base_freq, row, layer, layers, wl_layer,
                    wl_row, bi, busy, ncalls, shiftReg, latched, enc_row, snap, log, calls,
                    arms, nsent, switched, armed, dwell >>

\* the loop over the rows is done: Ok(())
ScanReturn ==
    /\ pc = "for_row"
    /\ ~RowLoop(row)
    /\ pc' = "idle"
    /\ result' = "Ok"
    /\ UNCHANGED << array, pins, timer, detail, caller, base_freq, row, layer, layers, wl_layer,
                    wl_row, bi, busy, ncalls, hist >>

\* ScanWrite that encodes the plane from the grid as it is when the plane is
\* written
ScanWriteReencodes ==
    /\ pc = "for_layer"
    /\ layer < LAYER_BITS
    /\ wl_layer' = prepare_row(array, row)[layer]
    /\ wl_row' = RowArg(layer, row)
    /\ bi' = 0
    /\ busy' = 0
    /\ log' = << >>
    /\ calls' = Append(calls, << row, layer >>)
    /\ pc' = FirstStep(RowArg(layer, row), Len(layers[layer]))
    /\ UNCHANGED << array, pins, timer, result, detail, caller, base_freq, row, layer, layers,
                    ncalls, shiftReg, latched, enc_row, snap, arms, nsent, switched, ticks,
                    armed, dwell >>

\* for layer in 0..LAYER_BITS { self.write_layer(&layers[layer], ...)
ScanWrite ==
    /\ pc = "for_layer"
    /\ layer < LAYER_BITS
    /\ wl_layer' = layers[layer]
    /\ wl_row' = RowArg(layer, row)
    /\ bi' = 0
    /\ busy' = 0
    /\ log' = << >>
    /\ calls' = Append(calls, << row, layer >>)
    /\ pc' = FirstStep(RowArg(layer, row), Len(layers[layer]))
    /\ UNCHANGED << array, pins, timer, result, detail, caller, base_freq, row, layer, layers, ncalls,
                    shiftReg, latched, enc_row, snap, arms, nsent, switched, ticks, armed, dwell >>

\* the loop over the planes of the row is done
ScanNextRow ==
    /\ pc = "for_layer"
    /\ layer >= LAYER_BITS
    /\ row' = row + 1
    /\ pc' = "for_row"
    /\ UNCHANGED << array, pins, timer, result, detail, caller, base_freq, layer, layers, wl_layer,
                    wl_row, bi, busy, ncalls, hist >>

\* let freq = base_freq << (LAYER_BITS - layer - 1); self.timer.start(freq);
ScanArm ==
    /\ pc = "arm"
    /\ timer' = Shl(base_freq, ShiftOf(layer))
    /\ arms' = Append(arms, [plane |-> layer, shift |-> ShiftOf(layer),
                             value |-> Shl(base_freq, ShiftOf(layer))])
    /\ armed' = [value |-> Shl(base_freq, ShiftOf(layer)), base |-> base_freq, plane |-> layer]
    /\ layer' = layer + 1
    /\ pc' = "for_layer"
    /\ UNCHANGED << array, pins, result, detail, caller, base_freq, row, layers, wl_layer, wl_row, bi,
                    busy, ncalls, shiftReg, latched, enc_row, snap, log, calls, nsent, switched,
                    ticks, dwell >>

\* between two calls the application writes the grid
WriteGrid ==
    /\ pc = "idle"
    /\ ncalls < MaxScans
    /\ array' \in Grids \ { array }
    /\ UNCHANGED << pins, timer, prog, hist >>

Next ==
    \/ ScanCall
    \/ ScanPrepare
    \/ ScanReturn
    \/ ScanWrite
    \/ ScanNextRow
    \/ ScanArm
    \/ WriteGrid
    \/ WriteLayerStep

Spec == Init /\ [][Next]_vars

\* ------------------------------------------------ write_layer called directly
TestBytes == << 87, 63, 13, 0, 255 >>
DirectLayers == { SubSeq(TestBytes, 1, n) : n \in 0 .. MaxLen }

\* a call of write_layer(layer, row) by the application
WLCall ==
    /\ pc = "idle"
    /\ ncalls < MaxCalls
    /\ \E l \in DirectLayers, r \in { None } \cup Rows :
          /\ wl_layer' = l
          /\ wl_row' = r
          /\ pc' = FirstStep(r, Len(l))
    /\ ncalls' = ncalls + 1
    /\ caller' = "api"
    /\ result' = "none"
    /\ detail' = "none"
    /\ bi' = 0
    /\ busy' = 0
    /\ log' = << >>
    /\ nsent' = 0
    /\ UNCHANGED << array, pins, timer, base_freq, row, layer, layers, shiftReg, latched,
                    enc_row, snap, calls, arms, switched, ticks, armed, dwell >>

InitWL ==
    /\ array = GridA
    /\ layers = ZeroLayers
    /\ Constructed

NextWL ==
    \/ WLCall
    \/ WriteLayerStep

SpecWL == InitWL /\ [][NextWL]_vars

\* ------------------------------------------------- prepare_row called directly
\* the row of test_prepare_row
TestRow == [c \in Cols |-> 15 - c]

\* a grid whose row r holds v in column (c0 + r) mod NUM_COLS over a background
EncGrid(c0, v, bg) ==
    [r \in Rows |-> [c \in Cols |->
        IF c = (c0 + r) % NUM_COLS THEN v ELSE (bg * (r + c + 1)) % (U8Max + 1)]]

EncGrids ==
    { EncGrid(c0, v, bg) : c0 \in { 0, NUM_COLS \div 2 }, v \in 0 .. U8Max, bg \in 0 .. MaxBg }
        \cup { GridA, [r \in Rows |-> TestRow] }

InitEnc ==
    /\ array \in EncGrids
    /\ layers \in { ZeroLayers, [l \in Layers |-> << U8Max, l >>] }
    /\ Constructed
    /\ row_pins[0] = FALSE
    /\ reg_pin = FALSE
    /\ output_disable = FALSE
    /\ timer = 0

\* EncodeRow with the loop over the planes one short: the last plane of the
\* buffer keeps what it held
EncodeRowKeepsLast ==
    /\ pc = "idle"
    /\ ncalls < MaxEncodes
    /\ \E r \in Rows :
          /\ layers' = [l \in Layers |->
                           IF l = LAYER_BITS - 1 THEN layers[l] ELSE prepare_row(array, r)[l]]
          /\ enc_row' = r
          /\ snap' = array[r]
    /\ ncalls' = ncalls + 1
    /\ caller' = "api"
    /\ result' = "encoded"
    /\ UNCHANGED << array, pins, timer, pc, detail, base_freq, row, layer, wl_layer, wl_row, bi,
                    busy, shiftReg, latched, log, calls, arms, nsent, switched, ticks, armed,
                    dwell >>

\* prepare_row(r, &mut layers) with r < NUM_ROWS
EncodeRow ==
    /\ pc = "idle"
    /\ ncalls < MaxEncodes
    /\ \E r \in Rows :
          /\ layers' = prepare_row(array, r)
          /\ enc_row' = r
          /\ snap' = array[r]
    /\ ncalls' = ncalls + 1
    /\ caller' = "api"
    /\ result' = "encoded"
    /\ UNCHANGED << array, pins, timer, pc, detail, base_freq, row, layer, wl_layer, wl_row, bi, busy,
                    shiftReg, latched, log, calls, arms, nsent, switched, ticks, armed, dwell >>

\* prepare_row(r, &mut layers) with r >= NUM_ROWS: assert!(r < NUM_ROWS) panics
EncodePanic ==
    /\ pc = "idle"
    /\ ncalls < MaxEncodes
    /\ \E r \in { NUM_ROWS, NUM_ROWS + 1 } : enc_row' = r
    /\ ncalls' = ncalls + 1
    /\ caller' = "api"
    /\ result' = "panic"
    /\ pc' = "panicked"
    /\ UNCHANGED << array, pins, timer, detail, snap, base_freq, row, layer, layers, wl_layer, wl_row, bi,
                    busy, shiftReg, latched, log, calls, arms, nsent, switched, ticks, armed,
                    dwell >>

NextEnc ==
    \/ EncodeRow
    \/ EncodePanic

SpecEnc == InitEnc /\ [][NextEnc]_vars

\* ------------------------------------------------------------------ claims
\* positions of the write_layer steps
WLPcs == { "reg_low", "send", "wait", "latch_only", "od_high", "row0", "row1", "row2",
           "latch", "od_low" }

\* the write_layer call has just returned Ok
Completed ==
    /\ result = "Ok"
    /\ \/ caller = "api" /\ pc = "idle"
       \/ caller = "scan" /\ pc = "arm"

\* indices of the log entries on device dev
At(dev) == { i \in 1 .. Len(log) : log[i][1] = dev }

\* indices of the bytes the transport accepted
Accepted == { i \in At("spi") : log[i][4] }

\* indices of the operations that drove (or tried to drive) the latch high
LatchHighAt == { i \in At("reg_pin") : log[i][3] = 1 }

\* the operations logged after the timer's wait answered Ok
AfterWait ==
    IF At("timer") = { } THEN << >>
    ELSE LET t == CHOOSE i \in At("timer") : TRUE
         IN  SubSeq(log, t + 1, Len(log))

\* the step has performed one more operation of the running call
Performs(dev) ==
    /\ Len(log') = Len(log) + 1
    /\ log'[Len(log')][1] = dev

SwitchOrder(r) ==
    << << "output_disable", 0, 1, TRUE, "Ok" >>,
       << "row_pin", 0, Bit(r, 0), TRUE, "Ok" >>,
       << "row_pin", 1, Bit(r, 1), TRUE, "Ok" >>,
       << "row_pin", 2, Bit(r, 2), TRUE, "Ok" >>,
       << "reg_pin", 0, 1, TRUE, "Ok" >>,
       << "output_disable", 0, 0, TRUE, "Ok" >> >>

\* C1: in every write_layer call with row = Some(r) that returns Ok, the pin
\* operations after the timer wait are, in this order: output-disable high, row
\* pins 0, 1, 2 written with the bits of r, latch high, output-disable low; and
\* output-disable is high before and after every row-pin write and before and
\* after the latch is driven high.
C1_RowSwitchOrder ==
    /\ []((Completed /\ wl_row # None) =>
            /\ Cardinality(At("timer")) = 1
            /\ AfterWait = SwitchOrder(wl_row))
    /\ [][(wl_row # None /\ (Performs("row_pin") \/ (Performs("reg_pin") /\ log'[Len(log')][3] = 1)))
            => (output_disable /\ output_disable')]_vars

\* the second call of test_write_layer: write_layer(_, Some(3)) has returned Ok
C1_Witness ==
    /\ Completed
    /\ caller = "api"
    /\ wl_row = 3
    /\ Len(log) = 8 + Len(wl_layer)
    /\ row_pins = [k \in 0 .. 2 |-> k < 2]
    /\ reg_pin
    /\ ~output_disable

\* the planes of every row of every grid the application writes
EncodedGrids == [g \in Grids |-> [r \in Rows |-> prepare_row(g, r)]]

\* the data on the column outputs comes from the row the row pins select
LatchedForSelectedRow ==
    /\ Len(latched) = SPI_BYTES
    /\ \A i \in 1 .. SPI_BYTES : latched[i][2] = RowOnPins
    /\ \E g \in Grids : \A i \in 1 .. SPI_BYTES :
          latched[i][1] = NotU8(EncodedGrids[g][RowOnPins][latched[i][3]][i])

\* C2: over any sequence of scan calls, failed ones included, once a row switch
\* has completed: whenever output-disable is low the latched column data was
\* encoded from the grid row selected by the row pins, and the row pins do not
\* change while output-disable is low.
C2_NoGhosting ==
    /\ []((switched /\ ~output_disable) => LatchedForSelectedRow)
    /\ [][(switched /\ ~output_disable) => row_pins' = row_pins]_vars

\* a scan was aborted in row 5; the next scan is shifting row 0 out while the
\* outputs still show row 5
C2_Witness ==
    /\ ncalls = 2
    /\ caller = "scan"
    /\ row = 0
    /\ pc = "wait"
    /\ switched
    /\ ~output_disable
    /\ RowOnPins = 5
    /\ latched[1][2] = 5
    /\ shiftReg[1][2] = 0

\* the 16-bit word a plane's two bytes hold, first byte most significant
WordOf(plane) == plane[1] * 256 + plane[2]

\* C3: after prepare_row(r, buf), bit c (from the least significant) of the
\* big-endian word of plane p is bit p of array[r][c] mod 16, for all u8
\* values; the row 15, 14, ..., 0 gives 0x5555, 0x3333, 0x0F0F, 0x00FF.
C3_PlaneBits ==
    result = "encoded" =>
        /\ \A p \in Layers : \A c \in Cols :
              Bit(WordOf(layers[p]), c) = Bit(array[enc_row][c] % 16, p)
        /\ array[enc_row] = TestRow =>
              layers = [p \in Layers |->
                          CASE p = 0 -> << 85, 85 >> [] p = 1 -> << 51, 51 >>
                            [] p = 2 -> << 15, 15 >> [] p = 3 -> << 0, 255 >>]

\* the row of test_prepare_row has been encoded
C3_Witness ==
    /\ result = "encoded"
    /\ array[enc_row] = TestRow
    /\ layers[0] = << 85, 85 >>
    /\ layers[3] = << 0, 255 >>

\* C4 as stated: column 0 is the most significant bit of the first byte and
\* column 15 the least significant bit of the second; the row 15, ..., 0 gives
\* plane 0 = 0xAA 0xAA and plane 3 = 0xFF 0x00.
C4_FirstColumnMSB ==
    result = "encoded" =>
        /\ \A p \in Layers :
              /\ Bit(layers[p][1], 7) = Bit(array[enc_row][0], p)
              /\ Bit(layers[p][2], 0) = Bit(array[enc_row][NUM_COLS - 1], p)
        /\ array[enc_row] = TestRow =>
              (layers[0] = << 170, 170 >> /\ layers[3] = << 255, 0 >>)

\* C4 amended: column 15 is the most significant bit of the first byte and
\* column 0 the least significant bit of the second (column c is bit c mod 8 of
\* byte 1 - c div 8); the row 15, ..., 0 gives plane 0 = 0x55 0x55 and
\* plane 3 = 0x00 0xFF.
C4_LastColumnMSB ==
    result = "encoded" =>
        /\ \A p \in Layers : \A c \in Cols :
              Bit(layers[p][2 - (c \div 8)], c % 8) = Bit(array[enc_row][c], p)
        /\ array[enc_row] = TestRow =>
              (layers[0] = << 85, 85 >> /\ layers[3] = << 0, 255 >>)

\* a row whose column 15 alone is lit in plane 3: only the top bit of byte 0
C4_Witness ==
    /\ result = "encoded"
    /\ array[enc_row][NUM_COLS - 1] = 8
    /\ \A c \in 0 .. (NUM_COLS - 2) : array[enc_row][c] = 0
    /\ layers[3] = << 128, 0 >>

\* the (row, plane) pairs of a pass, in row-major, plane-ascending order
AllPairs ==
    [i \in 1 .. (NUM_ROWS * LAYER_BITS) |-> << (i - 1) \div LAYER_BITS, (i - 1) % LAYER_BITS >>]

\* C5: a scan in which no peripheral operation fails makes exactly 32
\* write_layer calls, for (0,0), (0,1), ..., (7,3) in this order, sends exactly
\* 64 bytes and returns Ok; a scan that returns an error had an operation fail.
C5_FullPass ==
    caller = "scan" =>
        /\ Len(calls) <= NUM_ROWS * LAYER_BITS
        /\ \A i \in 1 .. Len(calls) : calls[i] = AllPairs[i]
        /\ (pc = "idle" /\ result = "Ok") =>
              /\ calls = AllPairs
              /\ nsent = NUM_ROWS * LAYER_BITS * SPI_BYTES
              /\ \A i \in 1 .. Len(log) : log[i][4]
        /\ (pc = "idle" /\ result # "Ok") =>
              /\ result \in { "PinError", "SPIError" }
              /\ ~log[Len(log)][4]

\* a scan has returned Ok
C5_Witness ==
    /\ caller = "scan"
    /\ pc = "idle"
    /\ result = "Ok"
    /\ Len(calls) = 32
    /\ calls[32] = << 7, 3 >>
    /\ nsent = 64

\* C6: a write_layer call with row = None drives neither output-disable nor a
\* row pin; scan passes Some(row) exactly for plane 0, and from the end of the
\* plane-0 write of a row to the end of its plane-3 write the row pins and
\* output-disable are neither driven nor changed.
C6_RowPinsOnlyOnPlaneZero ==
    /\ [](wl_row = None => (At("output_disable") = { } /\ At("row_pin") = { }))
    /\ []((caller = "scan" /\ pc \in WLPcs) =>
            IF layer = 0 THEN wl_row = row ELSE wl_row = None)
    /\ [][(caller = "scan" /\ pc # "idle" /\ layer >= 1) =>
            /\ row_pins' = row_pins
            /\ output_disable' = output_disable
            /\ ~Performs("row_pin")
            /\ ~Performs("output_disable")]_vars

\* plane 2 of row 2 has just been written without a row switch
C6_Witness ==
    /\ caller = "scan"
    /\ Completed
    /\ row = 2
    /\ layer = 2
    /\ wl_row = None
    /\ Len(log) = 3 + SPI_BYTES
    /\ RowOnPins = 2
    /\ ~output_disable

\* C7: in scan the timer is armed exactly once after each write_layer call that
\* returned Ok, with base_freq << (LAYER_BITS - 1 - p) for plane p; the shift is
\* in 0..3, 3 for plane 0 and 0 for plane 3; it is not armed after a failed write.
C7_ArmedValues ==
    caller = "scan" =>
        /\ \A i \in 1 .. Len(arms) :
              /\ i <= Len(calls)
              /\ arms[i].plane = calls[i][2]
              /\ arms[i].shift = LAYER_BITS - 1 - calls[i][2]
              /\ arms[i].shift \in 0 .. 3
              /\ (arms[i].plane = 0 => arms[i].shift = 3)
              /\ (arms[i].plane = 3 => arms[i].shift = 0)
              /\ arms[i].value = base_freq * (2 ^ (LAYER_BITS - 1 - calls[i][2]))
        /\ Len(arms) = IF pc \in { "for_row", "for_layer" } \/ (pc = "idle" /\ result = "Ok")
                       THEN Len(calls) ELSE Len(calls) - 1
        /\ (pc = "for_layer" /\ layer >= 1) => timer = arms[Len(arms)].value

\* the last plane of a pass has been written and the timer armed for it
C7_Witness ==
    /\ caller = "scan"
    /\ pc = "for_layer"
    /\ row = 7
    /\ layer = 4
    /\ Len(arms) = 32
    /\ arms[29].value = 8 * base_freq
    /\ timer = base_freq

C9_LatchAfterWait ==
    /\ [](\A i \in LatchHighAt \cup At("output_disable") \cup At("row_pin") :
             \E t \in At("timer") : t < i)
    /\ [](\A t \in At("timer") : Cardinality({ i \in Accepted : i < t }) = Len(wl_layer))
    /\ [][ticks' = ticks + 1 => Cardinality(Accepted) = Len(wl_layer)]_vars
    /\ [](dwell.armed # NoArm => dwell.ticks >= dwell.armed.value)

\* plane 1 of a row was latched by scan after the 4 * base polls armed for it
C9_Witness ==
    /\ caller = "scan"
    /\ Completed
    /\ layer = 2
    /\ dwell.plane = 1
    /\ dwell.armed.value = 4 * base_freq
    /\ dwell.ticks = 4 * base_freq
    /\ ticks = 0

\* C10: in every write_layer call the latch is driven low before the first
\* byte is offered to the transport and is not driven high until every byte has
\* been accepted; the latch is low during every send.
C10_LatchLowWhileShifting ==
    /\ [](\A i \in At("spi") :
             /\ log[1] = << "reg_pin", 0, 0, TRUE, "Ok" >>
             /\ \A j \in LatchHighAt : i < j)
    /\ [](LatchHighAt # { } => Cardinality(Accepted) = Len(wl_layer))
    /\ [](pc = "send" => ~reg_pin)
    /\ [][Performs("spi") => (~reg_pin /\ ~reg_pin')]_vars

\* the second byte of a layer is being offered, the transport has answered
\* WouldBlock once, and the latch is low
C10_Witness ==
    /\ caller = "api"
    /\ pc = "send"
    /\ Len(wl_layer) = 2
    /\ bi = 1
    /\ busy = 1
    /\ Cardinality(Accepted) = 1
    /\ ~reg_pin

\* a byte with each of its eight bits flipped
FlipByte(b) ==
    LET RECURSIVE Flip(_)
        Flip(k) == IF k < 0 THEN 0 ELSE (1 - Bit(b, k)) * (2 ^ k) + Flip(k - 1)
    IN  Flip(7)

\* the bytes the transport accepted in the running call, in order
SentBytes ==
    [k \in 1 .. Cardinality(Accepted) |->
        log[CHOOSE i \in Accepted : Cardinality({ j \in Accepted : j < i }) = k - 1][3]]

\* C11: every byte offered to the transport is the bit-flipped byte of the
\* layer that follows the ones already accepted, so the accepted bytes are the
\* flipped layer in its order, none twice and none skipped; a call that
\* returned Ok had exactly len(layer) bytes accepted ([0x57, 0x3f] goes out as
\* [0xa8, 0xc0]); a send answered WouldBlock is asked again with the same byte.
C11_InvertedBytesInOrder ==
    /\ [](\A i \in At("spi") :
             /\ log[i][2] = Cardinality({ j \in Accepted : j < i })
             /\ log[i][3] = FlipByte(wl_layer[log[i][2] + 1]))
    /\ [](Completed =>
             /\ Len(SentBytes) = Len(wl_layer)
             /\ \A k \in 1 .. Len(wl_layer) : SentBytes[k] = U8Max - wl_layer[k])
    /\ []((Completed /\ wl_layer = << 87, 63 >>) => SentBytes = << 168, 192 >>)
    /\ [][busy' = busy + 1 =>
             /\ pc = "send" /\ pc' = "send"
             /\ UNCHANGED << bi, log, shiftReg, nsent, wl_layer >>]_vars

\* write_layer(&[0x57, 0x3f], Some(3)) has returned Ok with 0xa8 and 0xc0 in
\* the shift register
C11_Witness ==
    /\ Completed
    /\ caller = "api"
    /\ wl_layer = << 87, 63 >>
    /\ wl_row = 3
    /\ SentBytes = << 168, 192 >>
    /\ [k \in 1 .. Len(shiftReg) |-> shiftReg[k][1]] = << 168, 192 >>

\* the last operation of the call was a send of the byte at index i that failed
SendFailedAt(i) ==
    /\ Len(log) > 0
    /\ log[Len(log)][1] = "spi"
    /\ log[Len(log)][2] = i
    /\ ~log[Len(log)][4]

\* C12: when the transport fails on the second byte of a plane, write_layer
\* returns SPIError carrying the transport's error value, having driven the
\* latch low and sent the first byte and nothing else: no further byte, no wait
\* on the timer, no write to output-disable or to a row pin, and the latch was
\* never driven high and is low.
C12_SecondByteFails ==
    /\ [](SendFailedAt(1) =>
             /\ pc = "idle"
             /\ result = "SPIError"
             /\ detail \in ErrorValues
             /\ detail = log[Len(log)][5]
             /\ Len(log) = 3
             /\ log[1] = << "reg_pin", 0, 0, TRUE, "Ok" >>
             /\ Accepted = { 2 }
             /\ At("timer") = { }
             /\ At("output_disable") = { }
             /\ At("row_pin") = { }
             /\ LatchHighAt = { }
             /\ ~reg_pin)
    /\ [][(Performs("spi") /\ ~log'[Len(log')][4]) =>
             /\ pc' = "idle"
             /\ UNCHANGED << pins, timer, shiftReg, latched, nsent, bi >>]_vars

\* write_layer(&[0x57, 0x3f], Some(3)) on a driver whose outputs were enabled
\* has returned SPIError(E2) from the second byte
C12_Witness ==
    /\ SendFailedAt(1)
    /\ caller = "api"
    /\ wl_layer = << 87, 63 >>
    /\ wl_row = 3
    /\ result = "SPIError"
    /\ detail = "E2"
    /\ ~output_disable
    /\ ~reg_pin

\* scan has returned an error
ScanFailed ==
    /\ caller = "scan"
    /\ pc = "idle"
    /\ result \in { "PinError", "SPIError" }

\* C13: when an operation of a write_layer call inside scan fails, scan
\* returns in that step with the error of that operation; the failed call is
\* the last one of the pass: no plane or row is encoded or written after it, no
\* further byte is sent, the timer is not armed after it, and no pin is driven
\* to undo anything, in the failing step or until the next call.
C13_ScanStopsAtFirstError ==
    /\ [][(caller = "scan" /\ Len(log') = Len(log) + 1 /\ ~log'[Len(log')][4]) =>
             /\ pc' = "idle"
             /\ result' = (IF log'[Len(log')][1] = "spi" THEN "SPIError" ELSE "PinError")
             /\ detail' = log'[Len(log')][5]
             /\ UNCHANGED << pins, timer, layers, enc_row, snap, row, layer, calls, arms, nsent,
                             shiftReg, latched >>]_vars
    /\ [](ScanFailed =>
             /\ Len(log) > 0
             /\ ~log[Len(log)][4]
             /\ \A i \in 1 .. (Len(log) - 1) : log[i][4]
             /\ detail = log[Len(log)][5]
             /\ calls[Len(calls)] = << row, layer >>
             /\ enc_row = row
             /\ Len(arms) = Len(calls) - 1
             /\ nsent = SPI_BYTES * (Len(calls) - 1) + Cardinality(Accepted))
    /\ [][(ScanFailed /\ ScanFailed') =>
             UNCHANGED << pins, timer, layers, calls, arms, nsent, log, shiftReg, latched >>]_vars

\* scan has returned SPIError(E1) from the second byte of plane 2 of row 1,
\* after six complete write_layer calls
C13_Witness ==
    /\ ScanFailed
    /\ result = "SPIError"
    /\ detail = "E1"
    /\ SendFailedAt(1)
    /\ row = 1
    /\ layer = 2
    /\ Len(calls) = 7
    /\ Len(arms) = 6

\* the operations of write_layer(l, r) when none fails: device, index, value
FullCall(l, r) ==
    << << "reg_pin", 0, 0 >> >>
        \o [i \in 1 .. Len(l) |-> << "spi", i - 1, U8Max - l[i] >>]
        \o << << "timer", 0, 0 >> >>
        \o (IF r = None
            THEN << << "reg_pin", 0, 1 >> >>
            ELSE << << "output_disable", 0, 1 >>,
                    << "row_pin", 0, (r % 2) >>,
                    << "row_pin", 1, ((r \div 2) % 2) >>,
                    << "row_pin", 2, ((r \div 4) % 2) >>,
                    << "reg_pin", 0, 1 >>,
                    << "output_disable", 0, 0 >> >>)

\* the last operation of the call was a pin operation that failed
PinFailed ==
    /\ Len(log) > 0
    /\ log[Len(log)][1] \in { "reg_pin", "output_disable", "row_pin" }
    /\ ~log[Len(log)][4]

\* the call has driven output-disable high
Blanked == \E i \in At("output_disable") : log[i][3] = 1 /\ log[i][4]

\* C14: a pin operation of write_layer that fails makes the call return
\* PinError with the pin's error value in that step: the operations performed
\* are the start of the full sequence up to the failed one and nothing after
\* it; when the failure comes after output-disable was driven high (a row pin,
\* the latch or the final set_low of output-disable fails) the call returns
\* with output-disable still high.
C14_PinErrorLeavesBlanked ==
    /\ [](/\ Len(log) <= Len(FullCall(wl_layer, wl_row))
          /\ \A i \in 1 .. Len(log) :
                << log[i][1], log[i][2], log[i][3] >> = FullCall(wl_layer, wl_row)[i])
    /\ [](PinFailed =>
             /\ pc = "idle"
             /\ result = "PinError"
             /\ detail = log[Len(log)][5]
             /\ \A i \in 1 .. (Len(log) - 1) : log[i][4])
    /\ []((PinFailed /\ Blanked) => output_disable)
    /\ [][(Len(log') = Len(log) + 1 /\ PinFailed') => (pc' = "idle" /\ pins' = pins)]_vars

\* the final set_low of output-disable of write_layer(.., Some(5)) failed: the
\* row is selected and latched and the outputs are still disabled
C14_Witness ==
    /\ PinFailed
    /\ caller = "api"
    /\ wl_row = 5
    /\ Len(wl_layer) = 2
    /\ log[Len(log)] = << "output_disable", 0, 0, FALSE, "E1" >>
    /\ result = "PinError"
    /\ RowOnPins = 5
    /\ reg_pin
    /\ output_disable

\* C15: after write_layer(_, Some(r)) has returned Ok, row pin k is high
\* exactly when bit k of r is 1, whatever the pins held before the call: the
\* call drove each of the three pins once, pin 0 first, then 1, then 2; for
\* r = 3 pins 0 and 1 are high and pin 2 is low.
C15_RowPinsEncodeRow ==
    /\ []((Completed /\ wl_row # None) =>
             /\ RowOnPins = wl_row
             /\ \A k \in 0 .. (ROW_BITS - 1) : row_pins[k] <=> ((wl_row \div (2 ^ k)) % 2 = 1)
             /\ Cardinality(At("row_pin")) = ROW_BITS
             /\ \A i \in At("row_pin") :
                   /\ log[i][4]
                   /\ log[i][2] = Cardinality({ j \in At("row_pin") : j < i })
                   /\ (log[i][3] = 1) <=> row_pins[log[i][2]])
    /\ []((Completed /\ wl_row = 3) => (row_pins[0] /\ row_pins[1] /\ ~row_pins[2]))

\* the second call of write_layer selected row 3 and returned Ok
C15_Witness ==
    /\ Completed
    /\ caller = "api"
    /\ ncalls = 2
    /\ wl_row = 3
    /\ row_pins[0]
    /\ row_pins[1]
    /\ ~row_pins[2]
    /\ ~output_disable

\* ------------------------------------- scan and prepare_row, both called
\* the application calls scan and, between passes, prepare_row on a buffer of
\* its own choosing
InitCalls ==
    /\ Init
    /\ array = GridA
    /\ row_pins[0] = FALSE
    /\ reg_pin = FALSE
    /\ output_disable = FALSE
    /\ timer = 0

NextCalls ==
    \/ ScanCall
    \/ ScanPrepare
    \/ ScanReturn
    \/ ScanWrite
    \/ ScanNextRow
    \/ ScanArm
    \/ WriteLayerStep
    \/ EncodeRow
    \/ EncodePanic

SpecCalls == InitCalls /\ [][NextCalls]_vars

\* C16: prepare_row(r, ..) with r >= NUM_ROWS panics and leaves the buffer
\* as it was, and it encodes nothing for such an r (no clamping, no wrapping);
\* only a call from outside scan can panic: inside scan the row passed is the
\* loop variable, which is below NUM_ROWS.
C16_RowIndexAsserted ==
    /\ [][(enc_row' # None /\ enc_row' >= NUM_ROWS) =>
             /\ result' = "panic"
             /\ pc' = "panicked"
             /\ UNCHANGED << layers, snap, array, pins, timer >>]_vars
    /\ [](result = "panic" => (caller = "api" /\ enc_row >= NUM_ROWS /\ pc = "panicked"))
    /\ [](result = "encoded" => enc_row \in Rows)
    /\ [][(result' = "encoded" /\ ncalls' # ncalls) =>
             (array' = array /\ layers' = prepare_row(array, enc_row'))]_vars
    /\ [](caller = "scan" => pc # "panicked")
    /\ []((caller = "scan" /\ pc \notin { "idle", "for_row" }) => (enc_row = row /\ row < NUM_ROWS))

\* after a complete pass that filled the buffer, prepare_row(8, ..) has
\* panicked and the buffer still holds the planes of row 7
C16_Witness ==
    /\ result = "panic"
    /\ caller = "api"
    /\ enc_row = NUM_ROWS
    /\ ncalls = 2
    /\ row = NUM_ROWS
    /\ layers = prepare_row(array, NUM_ROWS - 1)
    /\ layers # ZeroLayers

\* bit p of the columns lo .. hi of a row, column lo in the lowest bit
RECURSIVE ColumnBits(_, _, _, _)
ColumnBits(rowv, p, lo, hi) ==
    IF lo > hi THEN 0 ELSE Bit(rowv[lo], p) + 2 * ColumnBits(rowv, p, lo + 1, hi)

\* the four planes as a function of one grid row and of nothing else
RowCode(rowv) ==
    [p \in Layers |-> << ColumnBits(rowv, p, NUM_COLS \div 2, NUM_COLS - 1),
                         ColumnBits(rowv, p, 0, (NUM_COLS \div 2) - 1) >>]

\* C17: prepare_row(r, buf) leaves in buf a value that depends on array[r]
\* alone, whatever buf held before and whatever the other rows hold; a second
\* call for the same row gives the same buffer again; the call changes
\* neither the grid nor any pin, the timer or what the transport received.
C17_EncodingIsPure ==
    /\ [](result = "encoded" => layers = RowCode(array[enc_row]))
    /\ [][(result' = "encoded" /\ ncalls' = ncalls + 1) =>
             /\ (result = "encoded" /\ enc_row' = enc_row) => layers' = layers
             /\ UNCHANGED << array, pins, timer, shiftReg, latched, nsent, log >>]_vars

\* row 5 of a grid has been encoded twice into a buffer that held other bytes
C17_Witness ==
    /\ result = "encoded"
    /\ ncalls = 2
    /\ array = GridA
    /\ enc_row = 5
    /\ layers = RowCode(GridA[5])
    /\ layers # RowCode(GridA[4])
    /\ layers # ZeroLayers

\* ------------------------------------------ the grid written during a pass
\* array is a public field: code that shares the driver with a running scan
\* (an interrupt handler holding a raw pointer) writes the grid between two
\* steps of the pass
WriteGridMidPass ==
    /\ caller = "scan"
    /\ pc \notin { "idle", "panicked" }
    /\ array' \in Grids \ { array }
    /\ UNCHANGED << pins, timer, prog, hist >>

NextShared ==
    \/ Next
    \/ WriteGridMidPass

SpecShared == InitCalls /\ [][NextShared]_vars

\* C18: scan reads grid row r once per pass, when it leaves the loop head
\* for row r after the four calls of each earlier row, and it reads the grid as
\* it is then; every plane of row r handed to write_layer and every byte sent
\* for it in that pass is the code of that snapshot, so a write to the grid
\* made later changes no buffer, no plane in flight and nothing sent.
C18_RowSnapshot ==
    /\ [][(pc = "for_row" /\ pc' = "for_layer") =>
             /\ snap' = array[row]
             /\ layers' = RowCode(array[row])
             /\ Len(calls) = LAYER_BITS * row]_vars
    /\ [][(snap' # snap \/ layers' # layers) => (pc = "for_row" \/ pc = "idle")]_vars
    /\ []((caller = "scan" /\ pc \in WLPcs) =>
             /\ enc_row = row
             /\ wl_layer = RowCode(snap)[layer]
             /\ \A i \in At("spi") : log[i][3] = U8Max - RowCode(snap)[layer][log[i][2] + 1])
    /\ [][array' # array =>
             UNCHANGED << layers, snap, wl_layer, shiftReg, latched, log, pins, timer >>]_vars

\* plane 2 of row 1 is being sent from the snapshot of the row after the grid
\* was replaced by one whose row 1 has another plane 2
C18_Witness ==
    /\ caller = "scan"
    /\ pc = "send"
    /\ bi = 1
    /\ row = 1
    /\ layer = 2
    /\ array[row] # snap
    /\ wl_layer = RowCode(snap)[2]
    /\ wl_layer # RowCode(array[row])[2]

\* -------------------------------------------------- scan under fair answers
\* the steps scan takes by itself and the answers that end a poll: scan is
\* straight-line code around two polling loops, so it takes its next step
\* whenever it has one, and MockTimer counts down on every poll; that the
\* transport eventually stops answering WouldBlock is the assumption made
Progress ==
    \/ ScanPrepare
    \/ ScanReturn
    \/ ScanWrite
    \/ ScanNextRow
    \/ ScanArm
    \/ RegLow
    \/ SendAccepted
    \/ SendError
    \/ WaitWouldBlock
    \/ WaitDone
    \/ LatchOnly
    \/ OdHigh
    \/ RowPin0
    \/ RowPin1
    \/ RowPin2
    \/ SwitchLatch
    \/ OdLow

\* one pass from every state the driver can be built in
ScanOnce == ncalls = 0 /\ ScanCall

NextLive ==
    \/ ScanOnce
    \/ Progress
    \/ SendWouldBlock

SpecLive == Init /\ [][NextLive]_vars /\ WF_vars(Progress)

\* scan is running
InScan == caller = "scan" /\ pc \notin { "idle", "panicked" }

\* C19: when the polled operations eventually answer something other than
\* WouldBlock, a scan that was called returns, with Ok or with an error; scan
\* leaves a pending send only by an answer Ok or Err of the transport and a
\* pending wait only by the timer's Ok: until then it stays at that
\* operation, performs no other operation and does not return.
C19_ScanReturnsIffAnswered ==
    /\ InScan ~> (pc = "idle" /\ result \in { "Ok", "PinError", "SPIError" })
    /\ [][(InScan /\ pc = "send" /\ ~Performs("spi")) =>
             /\ pc' = "send"
             /\ busy' = busy + 1
             /\ UNCHANGED << bi, log, pins, timer, nsent, calls, arms, result, shiftReg, latched >>]_vars
    /\ [][(InScan /\ pc = "wait" /\ ~Performs("timer")) =>
             /\ pc' = "wait"
             /\ timer > 0
             /\ UNCHANGED << bi, log, pins, nsent, calls, arms, result, shiftReg, latched >>]_vars

\* a pass has returned Ok after waits that were answered WouldBlock
C19_Witness ==
    /\ caller = "scan"
    /\ pc = "idle"
    /\ result = "Ok"
    /\ ncalls = 1
    /\ Len(calls) = NUM_ROWS * LAYER_BITS
    /\ dwell.ticks > 0

\* the positions of the first write_layer call of a pass up to its wait
BeforeFirstWait ==
    /\ caller = "scan"
    /\ \/ Len(calls) = 0 /\ pc \in { "for_row", "for_layer" }
       \/ Len(calls) = 1 /\ pc \in { "reg_low", "send", "wait" }

\* C20: when scan returns Ok the timer holds the value armed for plane 3 of
\* row 7, base_freq << 0, and has not been polled since; scan changes the
\* timer only by arming it after a write and the timer counts down only
\* inside the wait of a write_layer call, so the first write of a pass waits
\* on what the timer held when scan was called: the last arming of the
\* previous pass, or whatever the timer was built with.
C20_LastArmNotWaited ==
    /\ []((caller = "scan" /\ pc = "idle" /\ result = "Ok") =>
             /\ timer = base_freq
             /\ armed = [value |-> base_freq, base |-> base_freq, plane |-> LAYER_BITS - 1]
             /\ ticks = 0
             /\ Len(arms) = NUM_ROWS * LAYER_BITS
             /\ arms[Len(arms)].shift = 0
             /\ latched[1][2] = NUM_ROWS - 1
             /\ latched[1][3] = LAYER_BITS - 1)
    /\ [][(BeforeFirstWait' /\ pc # "wait") => timer' = timer]_vars
    /\ [][timer' # timer => (pc = "wait" \/ pc = "arm")]_vars
    /\ [](armed # NoArm => timer = armed.value - ticks)

\* the first write of a second pass is about to wait on the timer as the
\* first pass armed it for plane 3 of row 7
C20_Witness ==
    /\ caller = "scan"
    /\ ncalls = 2
    /\ Len(calls) = 1
    /\ pc = "wait"
    /\ armed # NoArm
    /\ armed.plane = LAYER_BITS - 1
    /\ timer = armed.value
    /\ timer > 0
    /\ latched[1][2] = NUM_ROWS - 1
    /\ latched[1][3] = LAYER_BITS - 1

====
